---- MODULE Spec2Model ----
(***************************************************************************)
(* Model of the neuron-connectivity graph viewer.                          *)
(*                                                                         *)
(*   graph.ts  (src/unnamed/part_000, lines 1..342): ConnectivityGraph,    *)
(*             the builder that turns a ConnectivityKnowledge into graph   *)
(*             nodes and edges.                                            *)
(*   index.ts  (src/src/index.ts): App, the view controller with its       *)
(*             asynchronous handlers; every network await is a point at    *)
(*             which a handler is suspended and another event may run.     *)
(*                                                                         *)
(* Strings of the program are TLA+ strings.  A JavaScript value that may   *)
(* be undefined is a record with a "present" flag, so that values of one   *)
(* field always have one shape.  A schema version is counted in tenths.    *)
(***************************************************************************)
EXTENDS Integers, Sequences, FiniteSets, TLC

VARIABLES
    app,        \* the App object: its private fields and its DOM elements
    tasks,      \* invocations of run() and of the handlers suspended at an await
    env,        \* observations of the run: requests issued, builds, exceptions
    bk,         \* builder specification: the knowledge handed to addConnectivity
    bcache,     \* builder specification: the label cache given to the constructor
    bg,         \* builder specification: the ConnectivityGraph after the call
    lc,         \* label specification: one call of #getCachedTermLabels
    ps,         \* search specification: the path selector under the search box
    am          \* map list specification: one pass of #setSourceList over the maps

vars == <<app, tasks, env, bk, bcache, bg, lc, ps, am>>

-----------------------------------------------------------------------------
(* Bounds *)

MaxEdges == 2       \* longest connectivity list handed to the builder
MaxTasks == 2       \* handler invocations suspended at the same time
MaxEvents == 2      \* user events delivered after init
MaxRows == 3        \* most rows in the answer to a label lookup
MaxQuery == 2       \* longest enumerated text typed into the search box
MaxInputs == 2      \* input events delivered to the search box
MaxMaps == 3        \* most map descriptors a server lists

-----------------------------------------------------------------------------
(* Data: terms, knowledge nodes, knowledge records *)

Terms == {"t1", "t2", "t3"}

\* KnowledgeNode = [string, string[]]
N1 == <<"t1", <<>>>>
N2 == <<"t2", <<"t3">>>>
N3 == <<"t3", <<>>>>

\* The absent value of an optional string, and the empty Map
NoLabels == <<>>

\* A ConnectivityKnowledge as it arrives from JSON: "has" names the fields the
\* object carries; "present" is FALSE for undefined.
Knowledge(c, a, d, s) ==
    [present |-> TRUE, has |-> {"connectivity", "axons", "dendrites", "somas"},
     connectivity |-> c, axons |-> a, dendrites |-> d, somas |-> s]

Undefined ==
    [present |-> FALSE, has |-> {},
     connectivity |-> <<>>, axons |-> <<>>, dendrites |-> <<>>, somas |-> <<>>]

Without(k, field) ==
    [k EXCEPT !.has = @ \ {field}, ![field] = <<>>]

emptyConnectivity == Knowledge(<<>>, <<>>, <<>>, <<>>)

-----------------------------------------------------------------------------
(* graph.ts: ConnectivityGraph *)

RECURSIVE QuotedList(_)
QuotedList(terms) ==
    IF terms = <<>> THEN ""
    ELSE IF Len(terms) = 1 THEN "\"" \o terms[1] \o "\""
    ELSE "\"" \o terms[1] \o "\"," \o QuotedList(Tail(terms))

\* JSON.stringify of a KnowledgeNode
Stringify(node) ==
    "[\"" \o node[1] \o "\",[" \o QuotedList(node[2]) \o "]]"

Includes(seq, x) == \E i \in 1..Len(seq) : seq[i] = x

Map(seq, F(_)) == [i \in 1..Len(seq) |-> F(seq[i])]

\* A ConnectivityGraph right after its constructor; "threw" records that a
\* method raised an exception, "cy" that a CytoscapeGraph is attached.
NewGraph ==
    [nodes |-> <<>>, edges |-> <<>>, axons |-> <<>>, dendrites |-> <<>>,
     somas |-> <<>>, cy |-> FALSE, threw |-> FALSE]

\* The role flags #graphNode sets on its result (at most one property)
RoleFlagsSomaFirst(g, id) ==
    IF Includes(g.somas, id) THEN {"soma"}
    ELSE IF Includes(g.axons, id)
         THEN IF Includes(g.dendrites, id) THEN {"both-a-d"} ELSE {"axon"}
    ELSE IF Includes(g.dendrites, id) THEN {"dendrite"}
    ELSE {}

\* The chain of #graphNode with each test made on its own
RoleFlagsIndependent(g, id) ==
    (IF Includes(g.axons, id) THEN {"axon"} ELSE {})
    \cup (IF Includes(g.axons, id) /\ Includes(g.dendrites, id) THEN {"both-a-d"} ELSE {})
    \cup (IF Includes(g.somas, id) THEN {"soma"} ELSE {})
    \cup (IF Includes(g.dendrites, id) THEN {"dendrite"} ELSE {})

RoleFlags(g, id) ==
    IF Includes(g.axons, id)
    THEN IF Includes(g.dendrites, id) THEN {"both-a-d"} ELSE {"axon"}
    ELSE IF Includes(g.somas, id) THEN {"soma"}
    ELSE IF Includes(g.dendrites, id) THEN {"dendrite"}
    ELSE {}

HumanLabelUndefined(cache, term) ==
    IF term \in DOMAIN cache THEN cache[term] ELSE "undefined"

\* labelCache.has(term) ? labelCache.get(term) : ''
HumanLabel(cache, term) ==
    IF term \in DOMAIN cache THEN cache[term] ELSE ""

\* #graphNode: the label is kept as the list of lines that join('\n') glues
GraphNode(g, cache, node) ==
    LET id == Stringify(node)
        label == <<node[1]>> \o node[2]
        humanLabels == [i \in 1..Len(label) |-> HumanLabel(cache, label[i])]
    IN  [id |-> id, label |-> label \o humanLabels, flags |-> RoleFlags(g, id)]

PushEdgeMerging(g, cache, edge) ==
    LET e0 == GraphNode(g, cache, edge[1])
        e1 == GraphNode(g, cache, edge[2])
        ge == [id |-> e0.id \o "_" \o e1.id, source |-> e0.id, target |-> e1.id]
    IN  IF Includes(g.edges, ge) THEN g
        ELSE [g EXCEPT !.nodes = @ \o <<e0, e1>>, !.edges = Append(@, ge)]

\* One pass of the loop of addConnectivity
PushEdge(g, cache, edge) ==
    LET e0 == GraphNode(g, cache, edge[1])
        e1 == GraphNode(g, cache, edge[2])
    IN  [g EXCEPT !.nodes = @ \o <<e0, e1>>,
                  !.edges = Append(@, [id |-> e0.id \o "_" \o e1.id,
                                       source |-> e0.id, target |-> e1.id])]

RECURSIVE PushEdges(_, _, _)
PushEdges(g, cache, connectivity) ==
    IF connectivity = <<>> THEN g
    ELSE PushEdges(PushEdge(g, cache, Head(connectivity)), cache, Tail(connectivity))

MissingNode == [id |-> "MISSING", label |-> <<"NO PATHS">>, flags |-> {}]

PushMissingNever(g) == g

PushMissing(g) == [g EXCEPT !.nodes = Append(@, MissingNode)]

\* addConnectivity on the graph g; reading a field of undefined, or calling
\* .map / .length on an absent field, raises a TypeError
AddConnectivity(g, cache, knowledge) ==
    IF ~knowledge.present \/ "axons" \notin knowledge.has
       \/ "dendrites" \notin knowledge.has
    THEN [g EXCEPT !.threw = TRUE]
    ELSE LET g1 == [g EXCEPT !.axons = Map(knowledge.axons, Stringify),
                             !.dendrites = Map(knowledge.dendrites, Stringify)]
             g2 == IF "somas" \in knowledge.has
                   THEN [g1 EXCEPT !.somas = Map(knowledge.somas, Stringify)]
                   ELSE g1
         IN  IF "connectivity" \notin knowledge.has
             THEN [g2 EXCEPT !.threw = TRUE]
             ELSE IF Len(knowledge.connectivity) > 0
                  THEN PushEdges(g2, cache, knowledge.connectivity)
                  ELSE PushMissing(g2)

\* roots with the two spreads exchanged
RootsSomasFirst(g) == g.somas \o g.dendrites

\* get roots
Roots(g) == g.dendrites \o g.somas

-----------------------------------------------------------------------------
(* index.ts: constants *)

\* MIN_SCHEMA_VERSION = 1.3, in tenths
MIN_SCHEMA_VERSION == 13

\* MAP_ENDPOINTS: the modelled servers are its first two entries
MAP_ENDPOINTS == <<"curation", "devel">>

\* MAPS_TO_SHOW: the modelled maps are two of its entries
MAPS_TO_SHOW == <<[name |-> "Human Male", id |-> "human-flatmap_male"],
                  [name |-> "Rat", id |-> "rat-flatmap"]>>

Controls == {"server", "path", "layout", "source", "search"}

\* The options of the layout selector (they are fixed by the page)
LayoutOptions == <<"breadthfirst", "dagre">>

\* source.startsWith('sckan')
StartsWithSckan(source) == source \in {"sckan-a", "sckan-b"}

Range(seq) == {seq[i] : i \in 1..Len(seq)}

-----------------------------------------------------------------------------
(* The remote services, as seen through fetch *)

K_a1 == Knowledge(<<<<N1, N2>>>>, <<N2>>, <<N1>>, <<>>)
K_a2 == Knowledge(<<<<N2, N3>>>>, <<N3>>, <<N2>>, <<>>)
K_b2 == Knowledge(<<<<N1, N3>>, <<N3, N1>>>>, <<N3>>, <<N1, N3>>, <<>>)
K_m2 == Knowledge(<<<<N3, N1>>>>, <<N1>>, <<>>, <<N3>>)
K_m3 == Knowledge(<<<<N1, N1>>>>, <<N1>>, <<N1>>, <<>>)

\* GET {server}knowledge/sources, newest release first
ServerSources(server) ==
    IF server = "curation" THEN <<"sckan-b", "sckan-a">> ELSE <<"sckan-a">>

\* GET {server}: the map descriptors; one id is listed twice
ServerMaps(server) ==
    IF server = "curation"
    THEN <<[id |-> "rat-flatmap", uuid |-> "m0", created |-> 1],
           [id |-> "rat-flatmap", uuid |-> "m1", created |-> 2],
           [id |-> "dog-flatmap", uuid |-> "m9", created |-> 1]>>
    ELSE <<>>

\* A row of a query result: [key, jsonKnowledge]; "parses" tells whether
\* JSON.parse accepts the blob, "label" is '' when the blob has no label.
Row(key, label, knowledge) ==
    [key |-> key, parses |-> TRUE, label |-> label, knowledge |-> knowledge]

\* POST knowledge/query: the paths of a release, ordered by entity
PathRows(source) ==
    IF source = "sckan-a" THEN <<Row("p1", "Path one", K_a1), Row("p2", "", K_a2)>>
    ELSE IF source = "sckan-b"
         THEN <<Row("p2", "Path two", K_b2),
                Row("p3", "", Without(emptyConnectivity, "connectivity"))>>
    ELSE <<>>

\* GET flatmap/{map}/pathways: [id, connectivity?.length]
MapPathways(source) ==
    IF source = "m1"
    THEN <<[key |-> "p0", length |-> 0], [key |-> "p2", length |-> 1],
           [key |-> "p3", length |-> 1]>>
    ELSE <<>>

\* GET flatmap/{map}/connectivity/{path}
MapConnectivity(source, path) ==
    IF source = "m1" /\ path = "p2" THEN K_m2
    ELSE IF source = "m1" /\ path = "p3" THEN K_m3
    ELSE Knowledge(<<>>, <<>>, <<>>, <<>>)

\* The connectivity the services hold for a path of an origin
TrueKnowledge(source, path) ==
    IF StartsWithSckan(source)
    THEN IF \E i \in 1..Len(PathRows(source)) : PathRows(source)[i].key = path
         THEN (CHOOSE r \in Range(PathRows(source)) : r.key = path).knowledge
         ELSE Undefined
    ELSE MapConnectivity(source, path)

\* POST knowledge/query: the label rows of the requested terms; t3 has no row
\* and the knowledge of t2 has no label
LabelRows(terms) ==
    LET all == <<Row("t1", "Label one", Undefined), Row("t2", "", Undefined)>>
        Wanted(r) == r.key \in terms
    IN  SelectSeq(all, Wanted)

\* What a fetch can deliver: a network error, or a response with a status
\* and a body.  "json" tells whether response.json() succeeds.
NetError(body) == [status |-> "neterr", json |-> FALSE, body |-> body]

Response(status, body) == [status |-> status, json |-> TRUE, body |-> body]

Unparseable(status, body) == [status |-> status, json |-> FALSE, body |-> body]

NoVersion == [hasVersion |-> FALSE, version |-> 0]

Version(v) == [hasVersion |-> TRUE, version |-> v]

SchemaResponses ==
    {NetError(NoVersion),
     Response("ok", Version(13)), Response("ok", Version(12)),
     Response("ok", NoVersion), Unparseable("ok", NoVersion),
     Response("error", Version(13)), Response("error", NoVersion)}

SourcesResponses(server) ==
    {NetError(<<>>), Response("ok", ServerSources(server)),
     Response("error", ServerSources(server))}

MapsResponses(server) ==
    {NetError(<<>>), Response("ok", ServerMaps(server))}

QueryResponses(rows) ==
    {NetError(<<>>), Response("ok", rows), Response("error", rows)}

PathwaysResponses(source) ==
    {NetError(<<>>), Response("ok", MapPathways(source)),
     Response("error", MapPathways(source))}

\* {} is a body that parses and is no ConnectivityKnowledge
ConnectivityResponses(source, path) ==
    {NetError(Undefined), Response("ok", MapConnectivity(source, path)),
     Response("error", MapConnectivity(source, path)),
     Response("ok", [Undefined EXCEPT !.present = TRUE])}

-----------------------------------------------------------------------------
(* index.ts: the gateway *)

\* #getJsonData: null on a network error or an unparseable body; a non-2xx
\* status is logged and the body is returned all the same
GetJsonData(response, none) ==
    IF response.status = "neterr" \/ ~response.json
    THEN [null |-> TRUE, data |-> none]
    ELSE [null |-> FALSE, data |-> response.body]

\* #getSchemaVersion: data ? (+data.version || 0) : 0
GetSchemaVersion(response) ==
    LET got == GetJsonData(response, NoVersion)
    IN  IF got.null THEN 0
        ELSE IF got.data.hasVersion THEN got.data.version ELSE 0

\* #fetchMapConnectivity
FetchMapConnectivity(response) ==
    IF response.status /= "ok" \/ ~response.json THEN emptyConnectivity
    ELSE response.body

\* #query: the rows of data.values, [] on any failure
Query(response) ==
    IF response.status /= "ok" \/ ~response.json THEN <<>> ELSE response.body

\* #queryMapPaths: null unless the response is ok
QueryMapPaths(response) ==
    IF response.status /= "ok" \/ ~response.json
    THEN [null |-> TRUE, data |-> <<>>]
    ELSE [null |-> FALSE, data |-> response.body]

\* #getAvailableMaps
GetAvailableMaps(response) ==
    IF response.status /= "ok" \/ ~response.json THEN <<>> ELSE response.body

-----------------------------------------------------------------------------
(* index.ts: the label cache *)

NodeTerms(node) == {node[1]} \cup Range(node[2])

\* #cacheLabels / #cacheNodeLabels: the terms of every edge end
CacheLabels(labelledTerms, knowledge) ==
    labelledTerms \cup
    UNION {NodeTerms(knowledge.connectivity[i][1]) \cup NodeTerms(knowledge.connectivity[i][2]) :
           i \in 1..Len(knowledge.connectivity)}

Put(map, key, value) == [k \in DOMAIN map \cup {key} |-> IF k = key THEN value ELSE map[k]]

\* The loop of #getCachedTermLabels over data.values; JSON.parse raises on
\* a blob that does not parse.  Yields the cache and whether it raised.
RECURSIVE SetLabels(_, _, _)
SetLabels(cache, rows, last_entity) ==
    IF rows = <<>> THEN [cache |-> cache, threw |-> FALSE]
    ELSE LET row == Head(rows)
         IN  IF row.key /= last_entity
             THEN IF ~row.parses THEN [cache |-> cache, threw |-> TRUE]
                  ELSE SetLabels(Put(cache, row.key,
                                     IF row.label /= "" THEN row.label ELSE row.key),
                                 Tail(rows), row.key)
             ELSE SetLabels(cache, Tail(rows), last_entity)

-----------------------------------------------------------------------------
(* index.ts: App.  The operators below take and yield a machine state m:    *)
(*   m.a  the App object,  m.t  the running invocation (its kind, the await *)
(*   it stops at, its locals),  m.e  the observations,  m.o  the other      *)
(*   invocations, suspended while this one runs.                            *)

ShowSpinner(m) == [m EXCEPT !.a.spinner = TRUE]
HideSpinner(m) == [m EXCEPT !.a.spinner = FALSE]
ShowPrompt(m) == [m EXCEPT !.a.pathPrompt = TRUE]
HidePrompt(m) == [m EXCEPT !.a.pathPrompt = FALSE]

DisableTools(m) == [m EXCEPT !.a.disabled = [c \in Controls |-> TRUE]]
EnableTools(m) == [m EXCEPT !.a.disabled = [c \in Controls |-> FALSE]]

UpdateURLNowhere(m, key, value) == m

\* #updateURL: url.searchParams.set(key, value); history.pushState
UpdateURL(m, key, value) == [m EXCEPT !.a.url[key] = value]

\* The invocation stops at an await of a network request
Suspend(m, pc, req) ==
    [m EXCEPT !.t.pc = pc, !.t.req = req, !.e.step.issued = pc]

\* The invocation ends: by its last statement, or by an exception
Return(m) == [m EXCEPT !.t.pc = "done", !.e.step.done = TRUE]
Throw(m) == [m EXCEPT !.t.pc = "threw"]

NoRequest == [server |-> "", source |-> "", path |-> "", fromMap |-> FALSE, terms |-> {},
              placeholders |-> 0]

\* #clearConnectivity with both guards dropped: the visual is removed whether
\* or not one is displayed
ClearConnectivityUnguarded(m) ==
    [ShowPrompt([m EXCEPT !.e.step.destroyed = TRUE,
                          !.e.live = @ - 1,
                          !.a.connectivityGraph = NewGraph,
                          !.a.hasGraph = FALSE])
        EXCEPT !.a.currentPath = ""]

\* ConnectivityGraph.clearConnectivity, then the release of the graph
ClearConnectivity(m) ==
    LET m1 == IF m.a.hasGraph
              THEN ShowPrompt([m EXCEPT
                       !.e.step.destroyed = m.a.connectivityGraph.cy,
                       !.e.live = IF m.a.connectivityGraph.cy THEN @ - 1 ELSE @,
                       !.a.connectivityGraph = NewGraph,
                       !.a.hasGraph = FALSE])
              ELSE m
    IN  [m1 EXCEPT !.a.currentPath = ""]

\* #selectPath: whether the path is known and the selector offers it
CanSelectPath(a, neuronPath) ==
    /\ neuronPath \in DOMAIN a.knowledgeByPath
    /\ \E i \in 1..Len(a.pathOptions) : a.pathOptions[i].value = neuronPath

SelectPath(m, neuronPath) ==
    IF CanSelectPath(m.a, neuronPath) THEN [m EXCEPT !.a.pathValue = neuronPath] ELSE m

\* What follows #showGraph in run() and in each handler
Finish(m) ==
    LET kind == m.t.kind
    IN  IF kind = "init"
        THEN LET m1 == EnableTools(HideSpinner(m))
                 m2 == IF m1.a.path = "" THEN ShowPrompt(m1) ELSE m1
             IN  Return([m2 EXCEPT !.a.handlers = TRUE])
        ELSE IF kind = "server"
        THEN Return(HideSpinner(UpdateURL(m, "server", m.a.mapServer)))
        ELSE IF kind = "source"
        THEN LET m1 == IF StartsWithSckan(m.t.arg)
                       THEN IF CanSelectPath(m.a, m.a.currentPath)
                            THEN SelectPath(m, m.a.currentPath)
                            ELSE ClearConnectivity(m)
                       ELSE m
             IN  Return(HideSpinner(UpdateURL(m1, "source", m1.a.source)))
        ELSE IF kind = "path"
        THEN Return(HideSpinner(UpdateURL(m, "path", m.a.path)))
        ELSE Return(HideSpinner(UpdateURL(m, "layout", m.a.layout)))

\* The terms some other invocation is awaiting the labels of
LookupsInFlight(others) ==
    UNION {others[i].req.terms : i \in {j \in 1..Len(others) : others[j].pc \in {"labels", "graphLabels"}}}

\* #showGraph from "new ConnectivityGraph" on: build, show, record the path
Build(m, connectivityInfo) ==
    LET g == AddConnectivity(NewGraph, m.a.labelCache, connectivityInfo)
        m1 == [m EXCEPT !.a.connectivityGraph = g, !.a.hasGraph = TRUE]
    IN  IF g.threw THEN Throw(m1)
        ELSE LET m2 == HidePrompt(HideSpinner(m1))
                 m3 == [m2 EXCEPT !.a.connectivityGraph.cy = TRUE,
                                  !.a.shownLayout = m2.a.layout,
                                  !.e.step.built = TRUE,
                                  !.e.live = @ + 1,
                                  !.e.step.terms = CacheLabels({}, connectivityInfo),
                                  !.e.step.inFlight = LookupsInFlight(m.o),
                                  !.e.step.resolved = m.e.resolved,
                                  !.e.step.replacedLive =
                                      m.a.hasGraph /\ m.a.connectivityGraph.cy,
                                  !.a.currentPath = m2.a.path]
             IN  Finish(m3)

\* #getCachedTermLabels after its query has answered
GetCachedTermLabels(m, response) ==
    LET got == SetLabels(m.a.labelCache, Query(response), "")
        m1 == [m EXCEPT !.a.labelCache = got.cache]
    IN  IF got.threw THEN Throw(m1)
        ELSE [m1 EXCEPT !.e.resolved = @ \cup m.t.req.terms]

\* The query of #getCachedTermLabels: one '?' and size - 1 times ', ?' in the
\* statement, and the values of the set as its parameters
LabelParams(labelledTerms) ==
    [terms |-> labelledTerms, placeholders |-> 1 + (Cardinality(labelledTerms) - 1)]

LabelsRequest(m) ==
    [NoRequest EXCEPT !.server = m.a.mapServer,
                      !.terms = LabelParams(m.a.labelledTerms).terms,
                      !.placeholders = LabelParams(m.a.labelledTerms).placeholders]

\* #showGraph, map-backed, after the label query has answered
AfterGraphLabels(m, response) ==
    LET m1 == GetCachedTermLabels(m, response)
    IN  IF m1.t.pc = "threw" THEN m1 ELSE Build(m1, m1.t.info)

\* #showGraph, map-backed, after #fetchMapConnectivity has answered
AfterMapConnectivity(m, response) ==
    LET knowledge == FetchMapConnectivity(response)
        m1 == [m EXCEPT !.a.connectivityFromMap = knowledge, !.t.info = knowledge]
    IN  IF ~knowledge.present \/ "connectivity" \notin knowledge.has THEN Throw(m1)
        ELSE IF Len(knowledge.connectivity) > 0
        THEN LET m2 == [m1 EXCEPT !.a.labelledTerms = CacheLabels(@, knowledge)]
             IN  IF m2.a.labelledTerms /= {}
                 THEN Suspend(m2, "graphLabels", LabelsRequest(m2))
                 ELSE Build(m2, knowledge)
        ELSE Build(m1, knowledge)

KnowledgeByPathGet(a, path) ==
    IF path \in DOMAIN a.knowledgeByPath THEN a.knowledgeByPath[path] ELSE Undefined

\* #showGraph up to its first await
ShowGraph(m) ==
    IF m.a.path /= ""
    THEN LET m1 == ShowSpinner(m)
         IN  IF m1.a.sourceFromMap
             THEN Suspend(m1, "connectivity",
                          [NoRequest EXCEPT !.server = m1.a.mapServer,
                                            !.source = m1.a.source,
                                            !.path = m1.a.path])
             ELSE Build(m1, KnowledgeByPathGet(m1.a, m1.a.path))
    ELSE Finish(ShowPrompt(m))

\* The value a select element shows after its options were replaced: the
\* last option marked selected, else the first option
RECURSIVE SelectedValue(_, _)
SelectedValue(options, value) ==
    IF options = <<>> THEN value
    ELSE SelectedValue(Tail(options),
                       IF Head(options).selected THEN Head(options).value ELSE value)

ValueAfterReplace(options) ==
    SelectedValue(options, IF options = <<>> THEN "" ELSE options[1].value)

\* #setPathList from "pathSelector.innerHTML = ..." on, then what follows
\* #setPathList in run() and in the server and source handlers
EndSetPathList(m) ==
    LET m1 == [m EXCEPT !.a.pathOptions = m.t.pathList,
                        !.a.pathValue = ValueAfterReplace(m.t.pathList)]
        m2 == IF m1.t.kind = "init" /\ m1.a.layout /= ""
              THEN [m1 EXCEPT !.a.layoutValue =
                        IF Includes(LayoutOptions, m1.a.layout) THEN m1.a.layout ELSE ""]
              ELSE m1
    IN  ShowGraph(m2)

\* #setPathList, after the label query has answered
AfterLabels(m, response) ==
    LET m1 == GetCachedTermLabels(m, response)
    IN  IF m1.t.pc = "threw" THEN m1 ELSE EndSetPathList(m1)

\* #setPathsFromMap: the paths whose connectivity is not empty
SetPathsFromMap(response) ==
    LET got == QueryMapPaths(response)
        WithConnectivity(item) == item.length > 0
    IN  IF got.null THEN <<>>
        ELSE Map(SelectSeq(got.data, WithConnectivity),
                 LAMBDA item : [value |-> item.key, label |-> ""])

\* The label shown beside a path: knowledge.label || key
ShortLabel(key, label) == IF label /= "" THEN label ELSE key

\* The loop of #setPathsFromSCKAN over data.values
RECURSIVE SetPathsFromSCKAN(_, _)
SetPathsFromSCKAN(acc, rows) ==
    IF rows = <<>> THEN acc
    ELSE LET row == Head(rows)
         IN  IF ~row.parses THEN [acc EXCEPT !.threw = TRUE]
             ELSE IF "connectivity" \in row.knowledge.has
             THEN SetPathsFromSCKAN(
                      [acc EXCEPT
                          !.pathsData = Append(@, [value |-> row.key,
                                                   label |-> ShortLabel(row.key, row.label)]),
                          !.knowledgeByPath = Put(@, row.key, row.knowledge),
                          !.labelledTerms = CacheLabels(@, row.knowledge)],
                      Tail(rows))
             ELSE SetPathsFromSCKAN(acc, Tail(rows))

PromptOption == [value |-> "", label |-> "Please select path:", selected |-> FALSE]

\* #setPathList, after the path query has answered
AfterPaths(m, response) ==
    LET got == IF m.t.req.fromMap
               THEN [pathsData |-> SetPathsFromMap(response),
                     knowledgeByPath |-> m.a.knowledgeByPath,
                     labelledTerms |-> m.a.labelledTerms, threw |-> FALSE]
               ELSE SetPathsFromSCKAN(
                        [pathsData |-> <<>>, knowledgeByPath |-> m.a.knowledgeByPath,
                         labelledTerms |-> m.a.labelledTerms, threw |-> FALSE],
                        Query(response))
        m1 == [m EXCEPT !.a.knowledgeByPath = got.knowledgeByPath,
                        !.a.labelledTerms = got.labelledTerms]
        pathList == <<PromptOption>> \o
                    Map(got.pathsData,
                        LAMBDA d : [value |-> d.value, label |-> d.label,
                                    selected |-> m.a.path /= "" /\ m.a.path = d.value])
        m2 == [m1 EXCEPT !.t.pathList = pathList]
    IN  IF got.threw THEN Throw(m1)
        ELSE IF m2.a.labelledTerms /= {}
        THEN Suspend(m2, "labels", LabelsRequest(m2))
        ELSE EndSetPathList(m2)

SetPathListResettingCache(m) ==
    LET m1 == [m EXCEPT !.a.knowledgeByPath = <<>>, !.a.labelledTerms = {},
                        !.a.labelCache = NoLabels]
    IN  Suspend(m1, "paths",
                [NoRequest EXCEPT !.server = m1.a.mapServer, !.source = m1.a.source,
                                  !.fromMap = m1.a.sourceFromMap])

\* #setPathList up to its first await
SetPathList(m) ==
    LET m1 == [m EXCEPT !.a.knowledgeByPath = <<>>, !.a.labelledTerms = {}]
    IN  Suspend(m1, "paths",
                [NoRequest EXCEPT !.server = m1.a.mapServer, !.source = m1.a.source,
                                  !.fromMap = m1.a.sourceFromMap])

\* The forEach of #setSourceList over the maps the server lists
\* The forEach with the comparison of the creation times left out: the
\* descriptor met first is kept
RECURSIVE AvailableMapsKeepingFirst(_, _)
AvailableMapsKeepingFirst(availableMaps, mapSources) ==
    IF mapSources = <<>> THEN availableMaps
    ELSE LET map == Head(mapSources)
         IN  IF \E i \in 1..Len(availableMaps) : availableMaps[i].id = map.id
             THEN AvailableMapsKeepingFirst(availableMaps, Tail(mapSources))
             ELSE AvailableMapsKeepingFirst(Append(availableMaps, map), Tail(mapSources))

RECURSIVE AvailableMaps(_, _)
AvailableMaps(availableMaps, mapSources) ==
    IF mapSources = <<>> THEN availableMaps
    ELSE LET map == Head(mapSources)
             dups == {i \in 1..Len(availableMaps) : availableMaps[i].id = map.id}
             duplicatedMapIndex == CHOOSE i \in dups : \A j \in dups : i <= j
         IN  IF dups /= {}
             THEN IF availableMaps[duplicatedMapIndex].created < map.created
                  THEN AvailableMaps([availableMaps EXCEPT ![duplicatedMapIndex] = map],
                                     Tail(mapSources))
                  ELSE AvailableMaps(availableMaps, Tail(mapSources))
             ELSE AvailableMaps(Append(availableMaps, map), Tail(mapSources))

\* The forEach of #setSourceList over MAPS_TO_SHOW
RECURSIVE MapOptions(_, _, _)
MapOptions(toShow, availableMaps, source) ==
    IF toShow = <<>> THEN <<>>
    ELSE LET found == {i \in 1..Len(availableMaps) : availableMaps[i].id = Head(toShow).id}
             availableMap == availableMaps[CHOOSE i \in found : \A j \in found : i <= j]
         IN  (IF found /= {}
              THEN <<[value |-> availableMap.uuid, selected |-> source = availableMap.uuid]>>
              ELSE <<>>) \o MapOptions(Tail(toShow), availableMaps, source)

\* #setSourceList, after #getAvailableMaps has answered; then #setPathList
AfterMaps(m, response) ==
    LET availableMaps == AvailableMaps(<<>>, GetAvailableMaps(response))
        sourceList == m.t.sourceList \o MapOptions(MAPS_TO_SHOW, availableMaps, m.a.source)
        m1 == [m EXCEPT !.a.sourceOptions = sourceList,
                        !.a.sourceValue = ValueAfterReplace(sourceList)]
    IN  SetPathList(m1)

\* The loop of #setSourceList over the releases
RECURSIVE SourceOptions(_, _)
SourceOptions(sources, source) ==
    IF sources = <<>> THEN [source |-> source, list |-> <<>>]
    ELSE LET s == Head(sources)
             cur == IF s /= "" /\ source = "" THEN s ELSE source
             rest == SourceOptions(Tail(sources), cur)
         IN  IF s /= ""
             THEN [rest EXCEPT !.list = <<[value |-> s, selected |-> cur = s]>> \o @]
             ELSE rest

\* #setSourceList, after the sources have answered
AfterSources(m, response) ==
    LET data == GetJsonData(response, <<>>)
        sources == IF data.null THEN <<>> ELSE data.data
        got == SourceOptions(sources, m.a.source)
        m1 == [m EXCEPT !.a.source = got.source, !.t.sourceList = got.list]
    IN  Suspend(m1, "maps", [NoRequest EXCEPT !.server = m1.a.mapServer])

\* #setSourceList up to its first await
SetSourceList(m) ==
    Suspend(m, "sources", [NoRequest EXCEPT !.server = m.a.mapServer])

\* run(), after the schema version has answered
AfterSchema(m, response) ==
    LET m1 == [m EXCEPT !.e.step.schema = response, !.e.step.schemaSeen = TRUE]
    IN  IF GetSchemaVersion(response) < MIN_SCHEMA_VERSION
        THEN Return([m1 EXCEPT !.a.noServer = TRUE])
        ELSE SetSourceList(ShowSpinner([m1 EXCEPT !.e.verified = @ \cup {m1.a.mapServer}]))

\* #setServerList
SetServerList(m) ==
    LET server == IF m.a.mapServer = "" THEN MAP_ENDPOINTS[1] ELSE m.a.mapServer
        serverList == Map(MAP_ENDPOINTS, LAMBDA url : [value |-> url, selected |-> server = url])
    IN  [m EXCEPT !.a.mapServer = server,
                  !.a.serverOptions = serverList,
                  !.a.serverValue = ValueAfterReplace(serverList)]

\* run() up to its first await
RunStart(m) ==
    LET m1 == SetServerList(DisableTools(m))
    IN  Suspend(m1, "schema", [NoRequest EXCEPT !.server = m1.a.mapServer])

\* serverSelector.onchange
ServerChangeHandler(m, value) ==
    SetSourceList([ShowSpinner(m) EXCEPT !.a.mapServer = value])

\* sourceSelector.onchange without the assignments to #sourceFromMap
SourceChangeHandlerKeepingFlag(m, value) ==
    LET m1 == ShowSpinner(m)
    IN  IF value /= ""
        THEN SetPathList([m1 EXCEPT !.a.source = value])
        ELSE Return(m1)

\* sourceSelector.onchange
SourceChangeHandler(m, value) ==
    LET m1 == ShowSpinner(m)
    IN  IF value /= ""
        THEN SetPathList([m1 EXCEPT !.a.source = value,
                                    !.a.sourceFromMap = ~StartsWithSckan(value)])
        ELSE Return(m1)

\* pathSelector.onchange
PathChangeHandler(m, value) ==
    LET m1 == ShowSpinner(m)
    IN  IF value /= ""
        THEN ShowGraph([m1 EXCEPT !.a.path = value])
        ELSE Return(HideSpinner(ShowPrompt(ClearConnectivity(m1))))

\* layoutSelector.onchange
LayoutChangeHandler(m, value) ==
    ShowGraph([ShowSpinner(m) EXCEPT !.a.layout = value])

-----------------------------------------------------------------------------
(* The state machine *)

\* The values the page's URL can seed the constructor with
UrlServers == {""}
UrlSources == {"", "sckan-a", "m1"}
UrlPaths == {"", "p1", "p2"}
UrlLayouts == {"", "dagre"}

\* index.js and the constructor of App
Constructor(mapServer, source, path, layout) ==
    [mapServer |-> mapServer, source |-> source, path |-> path, layout |-> layout,
     sourceFromMap |-> (source /= "" /\ ~StartsWithSckan(source)),
     connectivityFromMap |-> emptyConnectivity,
     hasGraph |-> FALSE, connectivityGraph |-> NewGraph, currentPath |-> "",
     knowledgeByPath |-> <<>>, labelCache |-> NoLabels, labelledTerms |-> {},
     disabled |-> [c \in Controls |-> FALSE],
     spinner |-> FALSE, pathPrompt |-> FALSE, noServer |-> FALSE,
     serverOptions |-> <<>>, serverValue |-> "",
     sourceOptions |-> <<>>, sourceValue |-> "",
     pathOptions |-> <<>>, pathValue |-> "",
     layoutValue |-> LayoutOptions[1], shownLayout |-> "",
     handlers |-> FALSE,
     url |-> [server |-> mapServer, sckan |-> source, source |-> "",
              path |-> path, layout |-> layout]]

NewTask(kind, arg) ==
    [kind |-> kind, pc |-> "start", arg |-> arg, req |-> NoRequest,
     info |-> Undefined, pathList |-> <<>>, sourceList |-> <<>>,
     prevSource |-> app.source, prevPath |-> app.path, alone |-> tasks = <<>>,
     prevDisplayed |-> app.hasGraph /\ app.connectivityGraph.cy]

\* What one step of an invocation did: the request it issued, the schema
\* response it read, the graph it built, the visual it destroyed, whether it
\* reached the invocation's last statement; with the event's value, the
\* origin and the path that were current when the invocation started, and whether no other
\* invocation was suspended at any time since it started
NoStep ==
    [kind |-> "", issued |-> "", schemaSeen |-> FALSE, schema |-> NetError(NoVersion),
     built |-> FALSE, terms |-> {}, inFlight |-> {}, resolved |-> {},
     replacedLive |-> FALSE, destroyed |-> FALSE,
     done |-> FALSE, arg |-> "", prevSource |-> "", prevPath |-> "", alone |-> FALSE,
     at |-> "", req |-> NoRequest, response |-> NetError(<<>>),
     prevDisplayed |-> FALSE]

\* The path selector before any option is written into it
NoSearch == [options |-> <<>>, size |-> 1, value |-> <<>>, inputs |-> 0,
             listeners |-> 0]

\* The map list before the server's descriptors are gone through
NoMaps == [called |-> FALSE, mapSources |-> <<>>, availableMaps |-> <<>>]

InitEnv ==
    [started |-> FALSE, events |-> 0, aborted |-> {},
     resolved |-> {}, live |-> 0, verified |-> {}, step |-> NoStep]

NotCalled == [called |-> FALSE, graph |-> NewGraph]

\* The label cache and the needed terms before #getCachedTermLabels is called
NotResolved ==
    [called |-> FALSE, threw |-> FALSE, labelledTerms |-> {},
     response |-> NetError(<<>>), before |-> NoLabels, labelCache |-> NoLabels,
     added |-> FALSE, requests |-> <<>>]

Init ==
    /\ \E server \in UrlServers, source \in UrlSources, path \in UrlPaths,
          layout \in UrlLayouts :
          app = Constructor(server, source, path, layout)
    /\ tasks = <<>>
    /\ env = InitEnv
    /\ bk = Undefined
    /\ bcache = NoLabels
    /\ bg = NotCalled
    /\ lc = NotResolved
    /\ ps = NoSearch
    /\ am = NoMaps

Others(i) == SubSeq(tasks, 1, i - 1) \o SubSeq(tasks, i + 1, Len(tasks))

Machine(task, others) ==
    [a |-> app, t |-> task, o |-> others,
     e |-> [env EXCEPT !.step = [NoStep EXCEPT !.kind = task.kind,
                                               !.arg = task.arg,
                                               !.prevSource = task.prevSource,
                                               !.prevPath = task.prevPath,
                                               !.alone = task.alone,
                                               !.prevDisplayed = task.prevDisplayed]]]

\* The invocation has run up to its next await, its end or its exception
Commit(m, i) ==
    /\ app' = m.a
    /\ env' = IF m.t.pc = "threw" THEN [m.e EXCEPT !.aborted = @ \cup {m.t.kind}] ELSE m.e
    /\ tasks' = IF m.t.pc \in {"done", "threw"} THEN m.o
                ELSE SubSeq(m.o, 1, i - 1) \o <<m.t>> \o SubSeq(m.o, i, Len(m.o))
    /\ UNCHANGED <<bk, bcache, bg, lc, ps, am>>

\* A suspended invocation receives the response r and runs on
Resume(i, r, Continue(_, _)) ==
    Commit(Continue([Machine(tasks[i], Others(i)) EXCEPT !.e.step.at = tasks[i].pc,
                                                         !.e.step.req = tasks[i].req,
                                                         !.e.step.response = r], r), i)

\* await app.run()
Run ==
    /\ ~env.started
    /\ Commit(RunStart([Machine(NewTask("init", ""), <<>>) EXCEPT !.e.started = TRUE]), 1)

Suspended(pc) == {i \in 1..Len(tasks) : tasks[i].pc = pc}

ReceiveSchema ==
    \E i \in Suspended("schema") : \E r \in SchemaResponses :
        Resume(i, r, AfterSchema)

ReceiveSources ==
    \E i \in Suspended("sources") : \E r \in SourcesResponses(tasks[i].req.server) :
        Resume(i, r, AfterSources)

ReceiveMaps ==
    \E i \in Suspended("maps") : \E r \in MapsResponses(tasks[i].req.server) :
        Resume(i, r, AfterMaps)

ReceivePaths ==
    \E i \in Suspended("paths") :
        \E r \in IF tasks[i].req.fromMap
                 THEN PathwaysResponses(tasks[i].req.source)
                 ELSE QueryResponses(PathRows(tasks[i].req.source)) :
            Resume(i, r, AfterPaths)

ReceiveLabels ==
    \E i \in Suspended("labels") : \E r \in QueryResponses(LabelRows(tasks[i].req.terms)) :
        Resume(i, r, AfterLabels)

ReceiveMapConnectivity ==
    \E i \in Suspended("connectivity") :
        \E r \in ConnectivityResponses(tasks[i].req.source, tasks[i].req.path) :
            Resume(i, r, AfterMapConnectivity)

ReceiveGraphLabels ==
    \E i \in Suspended("graphLabels") :
        \E r \in QueryResponses(LabelRows(tasks[i].req.terms)) :
            Resume(i, r, AfterGraphLabels)

\* The browser delivers a change event of a select element: the control is
\* enabled, a handler is installed, and the user picked another option
CanChange(control, options, current, value) ==
    /\ app.handlers
    /\ ~app.disabled[control]
    /\ Len(tasks) < MaxTasks
    /\ env.events < MaxEvents
    /\ \E i \in 1..Len(options) : options[i].value = value
    /\ value /= current

Event(kind, value) ==
    [Machine(NewTask(kind, value),
             [i \in 1..Len(tasks) |-> [tasks[i] EXCEPT !.alone = FALSE]])
        EXCEPT !.e.events = @ + 1]

ServerChange ==
    \E value \in Range(MAP_ENDPOINTS) :
        /\ CanChange("server", app.serverOptions, app.serverValue, value)
        /\ Commit(ServerChangeHandler(
               [Event("server", value) EXCEPT !.a.serverValue = value], value), Len(tasks) + 1)

SourceChange ==
    \E value \in {app.sourceOptions[i].value : i \in 1..Len(app.sourceOptions)} :
        /\ CanChange("source", app.sourceOptions, app.sourceValue, value)
        /\ Commit(SourceChangeHandler(
               [Event("source", value) EXCEPT !.a.sourceValue = value], value), Len(tasks) + 1)

PathChange ==
    \E value \in {app.pathOptions[i].value : i \in 1..Len(app.pathOptions)} :
        /\ CanChange("path", app.pathOptions, app.pathValue, value)
        /\ Commit(PathChangeHandler(
               [Event("path", value) EXCEPT !.a.pathValue = value], value), Len(tasks) + 1)

LayoutChange ==
    \E value \in Range(LayoutOptions) :
        /\ CanChange("layout", [i \in 1..Len(LayoutOptions) |-> [value |-> LayoutOptions[i]]],
                     app.layoutValue, value)
        /\ Commit(LayoutChangeHandler(
               [Event("layout", value) EXCEPT !.a.layoutValue = value], value), Len(tasks) + 1)

Next ==
    \/ Run
    \/ ReceiveSchema
    \/ ReceiveSources
    \/ ReceiveMaps
    \/ ReceivePaths
    \/ ReceiveLabels
    \/ ReceiveMapConnectivity
    \/ ReceiveGraphLabels
    \/ ServerChange
    \/ SourceChange
    \/ PathChange
    \/ LayoutChange

Spec == Init /\ [][Next]_vars

-----------------------------------------------------------------------------
(* The builder on its own: addConnectivity applied to every knowledge of   *)
(* the bounded universe, under every label cache of a small family.        *)

BuilderNodes == {N1, N2}

BuilderEdges == BuilderNodes \X BuilderNodes

RECURSIVE SeqsUpTo(_, _)
SeqsUpTo(S, n) ==
    IF n = 0 THEN {<<>>}
    ELSE LET shorter == SeqsUpTo(S, n - 1)
         IN  shorter \cup {Append(q, x) : q \in {r \in shorter : Len(r) = n - 1}, x \in S}

WellFormed ==
    {Knowledge(c, a, d, s) :
        c \in SeqsUpTo(BuilderEdges, MaxEdges),
        a \in {<<>>, <<N1>>, <<N1, N2>>},
        d \in {<<>>, <<N1>>, <<N2, N1>>},
        s \in {<<>>, <<N1>>, <<N2>>}}

BuilderInputs ==
    WellFormed
    \cup {Without(k, "somas") : k \in WellFormed}
    \cup {Without(k, f) : k \in {w \in WellFormed : w.somas = <<>>},
                          f \in {"connectivity", "axons", "dendrites"}}
    \cup {Undefined}

BuilderCaches ==
    {NoLabels,
     [t \in {"t1", "t2"} |-> IF t = "t1" THEN "Label one" ELSE "t2"],
     [t \in Terms |-> IF t = "t1" THEN "Label one" ELSE t]}

InitBuilder ==
    /\ app = Constructor("", "", "", "")
    /\ tasks = <<>>
    /\ env = InitEnv
    /\ bk \in BuilderInputs
    /\ bcache \in BuilderCaches
    /\ bg = NotCalled
    /\ lc = NotResolved
    /\ ps = NoSearch
    /\ am = NoMaps

\* new ConnectivityGraph(labelCache), then addConnectivity(knowledge)
CallAddConnectivity ==
    /\ ~bg.called
    /\ bg' = [called |-> TRUE, graph |-> AddConnectivity(NewGraph, bcache, bk)]
    /\ UNCHANGED <<app, tasks, env, bk, bcache, lc, ps, am>>

NextBuilder == CallAddConnectivity

BuilderSpec == InitBuilder /\ [][NextBuilder]_vars

-----------------------------------------------------------------------------
(* The label cache on its own: #getCachedTermLabels called once, for every  *)
(* needed set, prior cache and answer of a small family.                    *)

\* A row whose knowledge blob JSON.parse rejects
Malformed(key) == [Row(key, "", Undefined) EXCEPT !.parses = FALSE]

\* The rows a lookup can return: a term with a label, without one, or with
\* a blob that does not parse
LabelRowUniverse ==
    {Row(key, label, Undefined) : key \in {"t1", "t2"}, label \in {"", "A", "B"}}
    \cup {Malformed(key) : key \in {"t1", "t2"}}

Keys(rows) == {rows[i].key : i \in 1..Len(rows)}

LabelInputs ==
    {[called |-> FALSE, threw |-> FALSE, labelledTerms |-> terms,
      response |-> r, before |-> cache, labelCache |-> cache,
      added |-> FALSE, requests |-> <<>>] :
        terms \in {{}, {"t1", "t2"}, {"t1", "t2", "t3"}},
        r \in UNION {QueryResponses(rows) : rows \in SeqsUpTo(LabelRowUniverse, MaxRows)},
        cache \in {NoLabels, [t \in {"t1"} |-> "Old"]}}

InitLabels ==
    /\ app = Constructor("", "", "", "")
    /\ tasks = <<>>
    /\ env = InitEnv
    /\ bk = Undefined
    /\ bcache = NoLabels
    /\ bg = NotCalled
    /\ lc \in {i \in LabelInputs : Keys(i.response.body) \subseteq i.labelledTerms}
    /\ ps = NoSearch
    /\ am = NoMaps

\* #cacheLabels for the knowledge of one more path, before the lookup
CallCacheLabels ==
    /\ ~lc.called
    /\ ~lc.added
    /\ \E knowledge \in {emptyConnectivity, K_a1, K_b2} :
          lc' = [lc EXCEPT !.added = TRUE,
                           !.labelledTerms = CacheLabels(@, knowledge)]
    /\ UNCHANGED <<app, tasks, env, bk, bcache, bg, ps, am>>

\* #getCachedTermLabels with every needed term queried on its own
CallGetCachedTermLabelsOneByOne ==
    /\ ~lc.called
    /\ lc' = LET got == SetLabels(lc.labelCache, Query(lc.response), "")
                 terms == lc.labelledTerms
                 Some(n) == CHOOSE q \in [1..n -> terms] : TRUE
             IN  [lc EXCEPT !.called = TRUE, !.threw = got.threw,
                            !.labelCache = got.cache,
                            !.requests =
                                IF terms = {} THEN <<>>
                                ELSE [i \in 1..Cardinality(terms) |-> LabelParams({Some(Cardinality(terms))[i]})]]
    /\ UNCHANGED <<app, tasks, env, bk, bcache, bg, ps, am>>

\* #getCachedTermLabels, its query included
CallGetCachedTermLabels ==
    /\ ~lc.called
    /\ lc' = IF lc.labelledTerms /= {}
             THEN LET got == SetLabels(lc.labelCache, Query(lc.response), "")
                  IN  [lc EXCEPT !.called = TRUE, !.threw = got.threw,
                                 !.labelCache = got.cache,
                                 !.requests = Append(@, LabelParams(lc.labelledTerms))]
             ELSE [lc EXCEPT !.called = TRUE]
    /\ UNCHANGED <<app, tasks, env, bk, bcache, bg, ps, am>>

NextLabels == CallCacheLabels \/ CallGetCachedTermLabels

LabelSpec == InitLabels /\ [][NextLabels]_vars

-----------------------------------------------------------------------------
(* The search box on its own: pathSearch.oninput applied to a path selector *)
(* holding the prompt and a few options.  A text is the sequence of its     *)
(* characters, so that lower-casing, splitting and substring search are     *)
(* computed character by character.                                         *)

Nbsp == "&nbsp;"        \* the one character U+00A0

UpperCase == <<"A", "B", "C", "D", "E", "F", "G", "H", "I", "J", "K", "L", "M",
               "N", "O", "P", "Q", "R", "S", "T", "U", "V", "W", "X", "Y", "Z">>
LowerCase == <<"a", "b", "c", "d", "e", "f", "g", "h", "i", "j", "k", "l", "m",
               "n", "o", "p", "q", "r", "s", "t", "u", "v", "w", "x", "y", "z">>

ToLowerChar(c) ==
    IF \E i \in 1..Len(UpperCase) : UpperCase[i] = c
    THEN LowerCase[CHOOSE i \in 1..Len(UpperCase) : UpperCase[i] = c]
    ELSE c

\* String.prototype.toLowerCase
ToLowerCase(text) == [i \in 1..Len(text) |-> ToLowerChar(text[i])]

\* The characters the class \s and trim() take for white space
IsSpace(c) == c \in {" ", Nbsp}

\* String.prototype.trim
RECURSIVE Trim(_)
Trim(text) ==
    IF text = <<>> THEN text
    ELSE IF IsSpace(Head(text)) THEN Trim(Tail(text))
    ELSE IF IsSpace(text[Len(text)]) THEN Trim(SubSeq(text, 1, Len(text) - 1))
    ELSE text

\* text.split(/\s+/g).join('-'): every maximal run of white space, leading
\* and trailing runs included, becomes one hyphen
RECURSIVE SplitJoin(_, _)
SplitJoin(text, i) ==
    IF i > Len(text) THEN <<>>
    ELSE IF IsSpace(text[i])
         THEN (IF i > 1 /\ IsSpace(text[i - 1]) THEN <<>> ELSE <<"-">>)
              \o SplitJoin(text, i + 1)
         ELSE <<text[i]>> \o SplitJoin(text, i + 1)

\* String.prototype.includes
StringIncludes(text, part) ==
    \E k \in 0..(Len(text) - Len(part)) : SubSeq(text, k + 1, k + Len(part)) = part

\* The loop body with the second alternative of "found" left out
OptionDisplayWithoutFolding(label, searchValue) ==
    IF Len(Trim(searchValue)) = 0 \/ StringIncludes(ToLowerCase(label), searchValue)
    THEN "" ELSE "none"

\* The body of the loop of pathSearch.oninput: the display of one option
OptionDisplay(label, searchValue) ==
    LET text == ToLowerCase(label)
        found == \/ StringIncludes(text, searchValue)
                 \/ StringIncludes(text, SplitJoin(searchValue, 1))
    IN  IF Len(Trim(searchValue)) = 0 \/ found THEN "" ELSE "none"

\* pathSearch.oninput with its loop started at options[0]
PathSearchOninputFromZero(sel, value) ==
    LET searchValue == ToLowerCase(value)
    IN  [sel EXCEPT
            !.options = [i \in 1..Len(sel.options) |->
                            [sel.options[i] EXCEPT
                                !.display = OptionDisplay(sel.options[i].label,
                                                          searchValue)]],
            !.size = IF Len(Trim(searchValue)) /= 0 THEN 10 ELSE 1,
            !.value = value,
            !.inputs = sel.inputs + 1,
            !.listeners = sel.listeners + 2]

\* pathSearch.oninput; options[0], the prompt, is never touched
PathSearchOninput(sel, value) ==
    LET searchValue == ToLowerCase(value)
    IN  [sel EXCEPT
            !.options = [i \in 1..Len(sel.options) |->
                            IF i = 1 THEN sel.options[i]
                            ELSE [sel.options[i] EXCEPT
                                     !.display = OptionDisplay(sel.options[i].label,
                                                               searchValue)]],
            !.size = IF Len(Trim(searchValue)) /= 0 THEN 10 ELSE 1,
            !.value = value,
            !.inputs = sel.inputs + 1,
            !.listeners = sel.listeners + 2]

Option(label) == [label |-> label, display |-> ""]

PleaseSelectPath == <<"P", "l", "e", "a", "s", "e", " ", "s", "e", "l", "e", "c",
                      "t", " ", "p", "a", "t", "h", ":">>
BladderNeuronPath == <<"B", "l", "a", "d", "d", "e", "r", " ", "n", "e", "u", "r",
                       "o", "n", " ", "p", "a", "t", "h">>
HeartVagalPath == <<"H", "e", "a", "r", "t", "-", "v", "a", "g", "a", "l", "-",
                    "p", "a", "t", "h">>
Vagal == <<"v", "a", "g", "a", "l">>
HeartPath == <<"h", "e", "a", "r", "t", " ", "p", "a", "t", "h">>
HeartVagal == <<"H", "e", "a", "r", "t", " ", "v", "a", "g", "a", "l">>

\* Labels as #setPathList writes them: the path id, two no-break spaces, the
\* short label
SearchLabels ==
    {<<BladderNeuronPath, HeartVagalPath>>}
    \cup {<<l1, l2>> :
            l1, l2 \in {<<"a", Nbsp, Nbsp, "A">>,
                        <<"a", "-", "b", Nbsp, Nbsp, "A", " ", "b">>,
                        <<"b", Nbsp, Nbsp, "B", "-", "a">>}}

\* The texts typed: the examples and every short text over a few characters
SearchValues ==
    {Vagal, HeartPath, HeartVagal}
    \cup UNION {[1..n -> {"a", "B", " ", "-"}] : n \in 0..MaxQuery}

InitSearch ==
    /\ app = Constructor("", "", "", "")
    /\ tasks = <<>>
    /\ env = InitEnv
    /\ bk = Undefined
    /\ bcache = NoLabels
    /\ bg = NotCalled
    /\ lc = NotResolved
    /\ am = NoMaps
    /\ \E labels \in SearchLabels :
          ps = [NoSearch EXCEPT
                   !.options = <<Option(PleaseSelectPath)>>
                               \o [i \in 1..Len(labels) |-> Option(labels[i])]]

\* An input event of the search box
SearchInput ==
    /\ ps.inputs < MaxInputs
    /\ \E value \in SearchValues : ps' = PathSearchOninput(ps, value)
    /\ UNCHANGED <<app, tasks, env, bk, bcache, bg, lc, am>>

\* The blur and change listeners that oninput registers on the selector
SelectorBlurOrChange ==
    /\ ps.listeners > 0
    /\ ps' = [ps EXCEPT !.size = 1]
    /\ UNCHANGED <<app, tasks, env, bk, bcache, bg, lc, am>>

NextSearch == SearchInput \/ SelectorBlurOrChange

SearchSpec == InitSearch /\ [][NextSearch]_vars

-----------------------------------------------------------------------------
(* The map list on its own: the forEach of #setSourceList over the          *)
(* descriptors a server lists, for every short list of a small family.      *)

MapDescriptors ==
    {[id |-> id, uuid |-> uuid, created |-> created] :
        id \in {"rat-flatmap", "dog-flatmap"}, uuid \in {"m1", "m2"}, created \in 1..3}

InitMaps ==
    /\ app = Constructor("", "", "", "")
    /\ tasks = <<>>
    /\ env = InitEnv
    /\ bk = Undefined
    /\ bcache = NoLabels
    /\ bg = NotCalled
    /\ lc = NotResolved
    /\ ps = NoSearch
    /\ \E mapSources \in SeqsUpTo(MapDescriptors, MaxMaps) :
          am = [NoMaps EXCEPT !.mapSources = mapSources]

\* const availableMaps = []; mapSources.forEach(...)
CallAvailableMaps ==
    /\ ~am.called
    /\ am' = [am EXCEPT !.called = TRUE,
                        !.availableMaps = AvailableMaps(<<>>, am.mapSources)]
    /\ UNCHANGED <<app, tasks, env, bk, bcache, bg, lc, ps>>

MapsSpec == InitMaps /\ [][CallAvailableMaps]_vars

-----------------------------------------------------------------------------
(* Claims about the builder *)

\* The knowledge carries the three fields addConnectivity reads unguarded
HasFields(k) == k.present /\ {"connectivity", "axons", "dendrites"} \subseteq k.has

Sentinel(g) ==
    /\ ~g.threw
    /\ g.nodes = <<[id |-> "MISSING", label |-> <<"NO PATHS">>, flags |-> {}]>>
    /\ g.edges = <<>>

\* C6: the builder never throws on missing or malformed input: for a knowledge
\* that is undefined or lacks connectivity, axons or dendrites the result is
\* the MISSING sentinel and no edges, as for an empty connectivity list.
C6_MalformedKnowledgeGivesSentinel ==
    (bg.called /\ ~HasFields(bk)) => Sentinel(bg.graph)

\* C7: a knowledge with an empty connectivity list, the value substituted for
\* a failed per-path fetch included, builds exactly the node MISSING / NO PATHS
\* and no edge, whatever the axon, dendrite and soma sets hold.
C7_EmptyConnectivityGivesSentinel ==
    /\ (bg.called /\ HasFields(bk) /\ bk.connectivity = <<>>) => Sentinel(bg.graph)
    /\ \A r \in ConnectivityResponses("m1", "p2") :
           r.status /= "ok" =>
               /\ HasFields(FetchMapConnectivity(r))
               /\ FetchMapConnectivity(r).connectivity = <<>>
               /\ bk = FetchMapConnectivity(r) /\ bg.called => Sentinel(bg.graph)

C7_Witness ==
    /\ bg.called
    /\ HasFields(bk) /\ bk.connectivity = <<>>
    /\ bk.axons /= <<>> /\ bk.dendrites /= <<>> /\ bk.somas /= <<>>
    /\ Len(bg.graph.nodes) = 1

\* C8: n > 0 input edges build 2n nodes and n edges in input order: nodes 2i-1
\* and 2i (counting from 1) are the source and target of edge i, edge i joins
\* their serializations under the id source_target; duplicates are kept.
C8_NodesAndEdgesFollowInput ==
    (bg.called /\ HasFields(bk) /\ Len(bk.connectivity) > 0) =>
        LET n == Len(bk.connectivity)
            g == bg.graph
        IN  /\ ~g.threw
            /\ Len(g.nodes) = 2 * n
            /\ Len(g.edges) = n
            /\ \A i \in 1..n :
                   /\ g.nodes[2 * i - 1].id = Stringify(bk.connectivity[i][1])
                   /\ g.nodes[2 * i].id = Stringify(bk.connectivity[i][2])
                   /\ g.edges[i].source = g.nodes[2 * i - 1].id
                   /\ g.edges[i].target = g.nodes[2 * i].id
                   /\ g.edges[i].id = g.edges[i].source \o "_" \o g.edges[i].target
                   /\ bk.connectivity[i] = <<N1, N2>> =>
                          g.edges[i].id = "[\"t1\",[]]_[\"t2\",[\"t3\"]]"

C8_Witness ==
    /\ bg.called
    /\ HasFields(bk)
    /\ Len(bk.connectivity) = 2
    /\ bk.connectivity[1] = bk.connectivity[2]
    /\ Len(bg.graph.edges) = 2
    /\ bg.graph.edges[1] = bg.graph.edges[2]
    /\ Len(bg.graph.nodes) = 4

\* The KnowledgeNode the i-th built node was made from
BuiltFrom(i) == bk.connectivity[(i + 1) \div 2][2 - (i % 2)]

InRole(role, node) == role \in bk.has /\ node \in Range(bk[role])

\* C9: the role of every built node follows the precedence: axon and dendrite
\* -> both-a-d; else axon -> axon; else soma -> soma; else dendrite ->
\* dendrite; else no flag.
C9_RolePrecedence ==
    (bg.called /\ HasFields(bk) /\ Len(bk.connectivity) > 0) =>
        \A i \in 1..Len(bg.graph.nodes) :
            LET flags == bg.graph.nodes[i].flags
                axon == InRole("axons", BuiltFrom(i))
                dendrite == InRole("dendrites", BuiltFrom(i))
                soma == InRole("somas", BuiltFrom(i))
            IN  /\ (axon /\ dendrite) => flags = {"both-a-d"}
                /\ (axon /\ ~dendrite) => flags = {"axon"}
                /\ (~axon /\ soma) => flags = {"soma"}
                /\ (~axon /\ ~soma /\ dendrite) => flags = {"dendrite"}
                /\ (~axon /\ ~soma /\ ~dendrite) => flags = {}

C9_Witness ==
    /\ bg.called
    /\ HasFields(bk)
    /\ Len(bk.connectivity) > 0
    /\ \E i \in 1..Len(bg.graph.nodes) :
           /\ InRole("axons", BuiltFrom(i))
           /\ InRole("somas", BuiltFrom(i))
           /\ ~InRole("dendrites", BuiltFrom(i))
           /\ bg.graph.nodes[i].flags = {"axon"}
    /\ \E i \in 1..Len(bg.graph.nodes) :
           /\ InRole("axons", BuiltFrom(i))
           /\ InRole("dendrites", BuiltFrom(i))
           /\ bg.graph.nodes[i].flags = {"both-a-d"}

\* C10: the label of a node built from a KnowledgeNode of k terms has 2k
\* lines: the k raw terms in order, then for each term its Label Cache entry,
\* or the empty string when the cache has none (never 'undefined').
C10_LabelLines ==
    (bg.called /\ HasFields(bk) /\ Len(bk.connectivity) > 0) =>
        /\ ~bg.graph.threw
        /\ \A i \in 1..Len(bg.graph.nodes) :
               LET terms == <<BuiltFrom(i)[1]>> \o BuiltFrom(i)[2]
                   k == Len(terms)
                   label == bg.graph.nodes[i].label
               IN  /\ Len(label) = 2 * k
                   /\ \A j \in 1..k :
                          /\ label[j] = terms[j]
                          /\ terms[j] \in DOMAIN bcache => label[k + j] = bcache[terms[j]]
                          /\ terms[j] \notin DOMAIN bcache => label[k + j] = ""

C10_Witness ==
    /\ bg.called
    /\ \E i \in 1..Len(bg.graph.nodes) :
           bg.graph.nodes[i].label = <<"t2", "t3", "t2", "">>
    /\ \E i \in 1..Len(bg.graph.nodes) :
           bg.graph.nodes[i].label = <<"t1", "Label one">>

-----------------------------------------------------------------------------
(* Claims about the label cache *)

\* #getCachedTermLabels was called with terms to look up
Resolved == lc.called /\ lc.labelledTerms /= {}

\* ... and its query was answered with rows
Answered == Resolved /\ lc.response.status = "ok"

AllParse(rows) == \A i \in 1..Len(rows) : rows[i].parses

NoDuplicates(rows) == \A i, j \in 1..Len(rows) : rows[i].key = rows[j].key => i = j

\* The first row of a term, in the order returned
FirstRow(rows, term) ==
    LET of == {i \in 1..Len(rows) : rows[i].key = term}
    IN  rows[CHOOSE i \in of : \A j \in of : i <= j]

\* The label a row gives its term: the label, or the term when it has none
LabelOrTerm(row) == IF row.label /= "" THEN row.label ELSE row.key

\* C15: when the rows of a lookup name a term more than once, adjacent or
\* not, the cache entry of the term is the label of its first row.
C15_FirstRowOfATermWins ==
    (Answered /\ AllParse(lc.response.body)) =>
        /\ ~lc.threw
        /\ \A term \in Keys(lc.response.body) :
               /\ term \in DOMAIN lc.labelCache
               /\ lc.labelCache[term] = LabelOrTerm(FirstRow(lc.response.body, term))

\* C16: a row whose blob does not parse raises no exception; its term falls
\* back to the raw term and the rows of the other terms are applied.
C16_MalformedRowIsSkipped ==
    (Answered /\ NoDuplicates(lc.response.body)) =>
        /\ ~lc.threw
        /\ \A i \in 1..Len(lc.response.body) :
               LET row == lc.response.body[i]
               IN  /\ row.key \in DOMAIN lc.labelCache
                   /\ lc.labelCache[row.key] = IF row.parses THEN LabelOrTerm(row) ELSE row.key

\* C17: after the lookup every needed term has a cache entry that is not
\* blank: the returned label when there is one, else the term itself (or the
\* entry it had), also for a term without a row and for a failed request.
C17_EveryNeededTermHasAnEntry ==
    (Resolved /\ AllParse(lc.response.body) /\ NoDuplicates(lc.response.body)) =>
        /\ ~lc.threw
        /\ \A term \in lc.labelledTerms :
               /\ term \in DOMAIN lc.labelCache
               /\ lc.labelCache[term] /= ""
               /\ IF lc.response.status = "ok" /\ term \in Keys(lc.response.body)
                  THEN lc.labelCache[term] = LabelOrTerm(FirstRow(lc.response.body, term))
                  ELSE \/ lc.labelCache[term] = term
                       \/ term \in DOMAIN lc.before /\ lc.labelCache[term] = lc.before[term]

-----------------------------------------------------------------------------
(* Claims about the controller *)

AllDisabled == \A c \in Controls : app.disabled[c]

AllEnabled == \A c \in Controls : ~app.disabled[c]

\* C1: at most one transition is in flight, and while one is suspended at a
\* network await every interactive control is disabled.
C1_OneTransitionInFlight ==
    /\ Len(tasks) <= 1
    /\ tasks /= <<>> => AllDisabled

Ids(nodes) == [i \in 1..Len(nodes) |-> nodes[i].id]

\* The node ids of the graph of a path of an origin, as the services hold it
IdsOf(source, path) ==
    Ids(AddConnectivity(NewGraph, NoLabels, TrueKnowledge(source, path)).nodes)

\* C2: once no transition is in flight (and none was cut short), a displayed
\* graph is the graph of the current path under the current origin, or the
\* MISSING graph shown when its data could not be fetched.
C2_DisplayedGraphIsOfCurrentPath ==
    (tasks = <<>> /\ env.aborted = {} /\ app.hasGraph /\ app.connectivityGraph.cy) =>
        \/ Ids(app.connectivityGraph.nodes) = IdsOf(app.source, app.path)
        \/ Ids(app.connectivityGraph.nodes) = <<"MISSING">>

\* C3: when a graph is built, the label lookup of every term of its
\* connectivity has been answered and applied, and no lookup of one of its
\* terms is in flight.
C3_LabelsResolvedBeforeBuild ==
    env.step.built =>
        /\ env.step.terms \subseteq env.step.resolved
        /\ env.step.terms \cap env.step.inFlight = {}

\* The schema fetch failed, or it gave no numeric version
SchemaFetchFailed(r) == r.status /= "ok" \/ ~r.json \/ ~r.body.hasVersion

\* C4: init ends Incompatible exactly when the schema fetch fails or the
\* version is below 1.3; then nothing more is requested, no handler is
\* installed and the controls stay disabled; otherwise init goes on to Ready.
C4_IncompatibleIffBelowMinimum ==
    /\ env.step.schemaSeen =>
           (app.noServer <=> (\/ SchemaFetchFailed(env.step.schema)
                              \/ env.step.schema.body.version < MIN_SCHEMA_VERSION))
    /\ app.noServer =>
           (tasks = <<>> /\ env.step.issued = "" /\ ~app.handlers /\ AllDisabled)
    /\ "init" \notin env.aborted

\* C5: every transition that starts reaches its last step: none is cut short
\* by an exception, and once none is in flight the spinner is hidden and the
\* controls are enabled.
C5_EveryTransitionCompletes ==
    /\ env.aborted = {}
    /\ (tasks = <<>> /\ env.started /\ ~app.noServer) => (~app.spinner /\ AllEnabled)

\* The step just taken ran the last statement of an invocation of this kind,
\* which no other invocation overlapped
EndOf(kind) == env.step.kind = kind /\ env.step.done /\ env.step.alone

\* A visual is on the canvas
Displayed == app.hasGraph /\ app.connectivityGraph.cy

\* The path selector offers the path as an option
Offered(path) == path /= "" /\ \E i \in 1..Len(app.pathOptions) : app.pathOptions[i].value = path

\* C11: when a change of origin that ran alone ends, the URL names the new
\* origin; a path that was selected and that the new origin's list offers
\* stays selected with its graph displayed; otherwise no graph is displayed
\* and the prompt is shown.
C11_OriginChangeKeepsOrClearsPath ==
    EndOf("source") =>
        /\ app.url.source = env.step.arg
        /\ Offered(env.step.prevPath) =>
               (app.pathValue = env.step.prevPath /\ Displayed)
        /\ ~Offered(env.step.prevPath) => (~Displayed /\ app.pathPrompt)

\* The ids of the pathways a map lists
PathwayIds(source) == {MapPathways(source)[i].key : i \in 1..Len(MapPathways(source))}

\* C12: when a change of origin that ran alone goes from a release to a map
\* whose pathway list lacks the selected path, it ends with no graph
\* displayed, the prompt shown, an empty path in the selection and in the URL.
C12_PathAbsentFromMapIsCleared ==
    (/\ EndOf("source")
     /\ StartsWithSckan(env.step.prevSource)
     /\ ~StartsWithSckan(env.step.arg)
     /\ env.step.prevPath /= ""
     /\ env.step.prevPath \notin PathwayIds(env.step.arg)
     /\ ~Offered(env.step.prevPath)) =>
        /\ ~Displayed
        /\ app.pathPrompt
        /\ app.path = ""
        /\ app.url.path = ""

\* The step just taken ran the last statement of an invocation of this kind
Ended(kind) == env.step.kind = kind /\ env.step.done

\* What changePath promises at its end
PathChangeShown ==
    /\ env.step.arg = "" => (~Displayed /\ app.pathPrompt)
    /\ env.step.arg /= "" =>
           /\ Displayed
           /\ \/ Ids(app.connectivityGraph.nodes) = IdsOf(env.step.prevSource, env.step.arg)
              \/ Ids(app.connectivityGraph.nodes) = <<"MISSING">>
           /\ ~app.pathPrompt
           /\ app.path = env.step.arg
           /\ app.url.path = env.step.arg

\* C13: a change of path to the empty value ends with no graph displayed and
\* the prompt shown; a change to a path ends with the graph of that path
\* displayed, the prompt hidden, and the path in the selection and in the URL.
C13_PathChangeShowsOrClears == Ended("path") => PathChangeShown

\* C14: no step of a change of layout that ran alone issues a network
\* request, whatever the origin; at its end the layout of the selection and
\* the URL layout parameter are the new layout.
C14_LayoutChangeDoesNotRefetch ==
    (env.step.kind = "layout" /\ env.step.alone) =>
        /\ env.step.issued = ""
        /\ env.step.done => (app.layout = env.step.arg /\ app.url.layout = env.step.arg)

\* C18: no step of any transition removes a term from the Label Cache.
C18_LabelCacheGrowsOnly ==
    [][DOMAIN app.labelCache \subseteq DOMAIN app'.labelCache]_vars

\* A change of origin to a map has ended and the cache still holds a term
\* that only the release before it uses
C18_Witness ==
    /\ Ended("source")
    /\ StartsWithSckan(env.step.prevSource)
    /\ ~StartsWithSckan(env.step.arg)
    /\ "t2" \in DOMAIN app.labelCache
    /\ "t2" \notin app.labelledTerms

\* The URL parameter a handler writes, and the field it mirrors
Param(kind) == IF kind = "init" THEN "" ELSE kind

Field(kind) ==
    IF kind = "server" THEN app.mapServer
    ELSE IF kind = "source" THEN app.source
    ELSE IF kind = "path" THEN app.path
    ELSE app.layout

\* C19: when a server, origin, path or layout change has ended and none is
\* in flight, the URL parameter of the changed field equals the field; and
\* a step of a transition rewrites no parameter but that of its own field.
C19_UrlMirrorsSelection ==
    /\ [](\A kind \in {"server", "source", "path", "layout"} :
             (tasks = <<>> /\ Ended(kind) /\ env.step.arg /= "") =>
                 app.url[Param(kind)] = Field(kind))
    /\ [][\A key \in DOMAIN app.url :
              key /= Param(env'.step.kind) => app'.url[key] = app.url[key]]_vars

\* An origin change and then a path change have each rewritten their own
\* parameter
C19_Witness ==
    /\ tasks = <<>>
    /\ Ended("path")
    /\ env.step.arg /= ""
    /\ app.url.path = app.path
    /\ app.url.source = app.source
    /\ app.url.source /= ""
    /\ app.url.layout = ""

\* The App that a start of the page from the present URL constructs
Seeded == Constructor(app.url.server, app.url.sckan, app.url.path, app.url.layout)

SeededField(kind) ==
    IF kind = "server" THEN Seeded.mapServer
    ELSE IF kind = "source" THEN Seeded.source
    ELSE IF kind = "path" THEN Seeded.path
    ELSE Seeded.layout

\* The origin run() settles on when the URL names none: the newest release
DefaultSource == IF ServerSources(app.mapServer) = <<>> THEN "" ELSE ServerSources(app.mapServer)[1]

\* C20: when a server, origin, path or layout change has ended and none is
\* in flight, a start of the page from the URL seeds the changed field with
\* the value the selection holds (an origin left out of the URL being seeded
\* by the newest release).
C20_UrlRoundTrip ==
    \A kind \in {"server", "source", "path", "layout"} :
        (tasks = <<>> /\ Ended(kind) /\ env.step.arg /= "") =>
            \/ SeededField(kind) = Field(kind)
            \/ kind = "source" /\ Seeded.source = "" /\ app.source = DefaultSource

-----------------------------------------------------------------------------
(* Claims about the search box *)

\* The query occurs in the label at some offset, letter case set aside
ContainsIgnoringCase(label, query) ==
    \E k \in 0..(Len(label) - Len(query)) :
        \A j \in 1..Len(query) : ToLowerChar(label[k + j]) = ToLowerChar(query[j])

\* The query with its spaces folded to hyphens, one hyphen for a run of spaces
Folded(query) ==
    LET keep == {i \in 1..Len(query) : ~(IsSpace(query[i]) /\ i > 1 /\ IsSpace(query[i - 1]))}
        Nth(n) == CHOOSE i \in keep : Cardinality({j \in keep : j < i}) = n - 1
    IN  [n \in 1..Cardinality(keep) |->
            IF IsSpace(query[Nth(n)]) THEN "-" ELSE query[Nth(n)]]

Shown(i) == ps.options[i].display = ""

SearchedFor(labels, query) ==
    /\ ps.inputs > 0
    /\ ps.value = query
    /\ Len(ps.options) = Len(labels) + 1
    /\ \A i \in 1..Len(labels) : ps.options[i + 1].label = labels[i]

\* C21: after a search input with a query that is not blank, the visible path
\* options are exactly those whose label contains the query, letter case set
\* aside, or contains it with its spaces folded to hyphens; for the labels
\* "Bladder neuron path" and "Heart-vagal-path" the query "vagal" leaves only
\* the second visible and the query "heart path" leaves the second visible.
C21_SearchFilter ==
    /\ (ps.inputs > 0 /\ \E i \in 1..Len(ps.value) : ~IsSpace(ps.value[i])) =>
          \A i \in 2..Len(ps.options) :
              Shown(i) <=> \/ ContainsIgnoringCase(ps.options[i].label, ps.value)
                           \/ ContainsIgnoringCase(ps.options[i].label, Folded(ps.value))
    /\ SearchedFor(<<BladderNeuronPath, HeartVagalPath>>, Vagal) =>
          ~Shown(2) /\ Shown(3)
    /\ SearchedFor(<<BladderNeuronPath, HeartVagalPath>>, HeartPath) => Shown(3)

\* C21 as the code has it: the rule of C21 and its first example hold; the
\* query "heart path" folds to "heart-path", which "heart-vagal-path" does not
\* contain, and hides both options; the query "Heart vagal" folds to
\* "heart-vagal" and leaves the second option visible.
C21_SearchFilterByFolding ==
    /\ (ps.inputs > 0 /\ \E i \in 1..Len(ps.value) : ~IsSpace(ps.value[i])) =>
          \A i \in 2..Len(ps.options) :
              Shown(i) <=> \/ ContainsIgnoringCase(ps.options[i].label, ps.value)
                           \/ ContainsIgnoringCase(ps.options[i].label, Folded(ps.value))
    /\ SearchedFor(<<BladderNeuronPath, HeartVagalPath>>, Vagal) =>
          ~Shown(2) /\ Shown(3)
    /\ SearchedFor(<<BladderNeuronPath, HeartVagalPath>>, HeartPath) =>
          ~Shown(2) /\ ~Shown(3)
    /\ SearchedFor(<<BladderNeuronPath, HeartVagalPath>>, HeartVagal) =>
          ~Shown(2) /\ Shown(3)

\* A query matched by the folding alone has been typed
C21_Witness ==
    /\ SearchedFor(<<BladderNeuronPath, HeartVagalPath>>, HeartVagal)
    /\ ~ContainsIgnoringCase(HeartVagalPath, HeartVagal)
    /\ Shown(3)

-----------------------------------------------------------------------------
(* Claims about the gateway *)

\* The response the step received is a network error or a non-2xx response
TransportFailure == env.step.at /= "" /\ env.step.response.status /= "ok"

\* C22: a fetch that ends in a network error or a non-2xx response gives the
\* safe empty value, whatever the failed response carries: schema version 0,
\* no sources, no maps, no paths, the empty connectivity, no rows.
C22_TransportFailureGivesEmptyValue ==
    TransportFailure =>
        LET r == env.step.response
            at == env.step.at
        IN  /\ at = "schema" => GetSchemaVersion(r) = 0
            /\ at = "sources" => (GetJsonData(r, <<>>).null \/ GetJsonData(r, <<>>).data = <<>>)
            /\ at = "maps" => GetAvailableMaps(r) = <<>>
            /\ at = "paths" => (SetPathsFromMap(r) = <<>> /\ Query(r) = <<>>)
            /\ at = "connectivity" => FetchMapConnectivity(r) = emptyConnectivity
            /\ at \in {"labels", "graphLabels"} => Query(r) = <<>>

-----------------------------------------------------------------------------
(* Claims about the life of the visual *)

\* C23: at most one visual is live: a visual is constructed only after the
\* one displayed before it has been torn down, so the visuals (and tooltip
\* elements) constructed and not destroyed never number more than one.
C23_AtMostOneLiveVisual ==
    /\ env.live <= 1
    /\ ~env.step.replacedLive

\* A step that is the whole run of pathSelector.onchange for the empty value
PathCleared ==
    /\ env'.events = env.events + 1
    /\ env'.step.kind = "path"
    /\ env'.step.arg = ""

\* C24: teardown is idempotent: a graph-clear invoked when no graph is
\* displayed (none was ever displayed, or it was cleared, or it was never
\* drawn) raises no exception, destroys nothing, creates no visual and no
\* tooltip, and leaves the controller in the cleared state: no graph, no
\* current path, the prompt shown, every other field as it was.
C24_TeardownIsIdempotent ==
    [][(PathCleared /\ ~Displayed) =>
          /\ env'.step.done
          /\ env'.aborted = env.aborted
          /\ ~env'.step.destroyed
          /\ ~env'.step.built
          /\ env'.live = env.live
          /\ app' = [app EXCEPT !.hasGraph = FALSE, !.connectivityGraph = NewGraph,
                                !.currentPath = "", !.pathPrompt = TRUE,
                                !.spinner = FALSE, !.pathValue = ""]]_vars

\* The path selector was set to the empty value while no graph was displayed
C24_Witness ==
    /\ Ended("path")
    /\ env.step.arg = ""
    /\ ~env.step.destroyed
    /\ ~app.hasGraph
    /\ app.pathPrompt

\* C25: a layout change redisplays a graph only if one is displayed: when no
\* graph is displayed as the layout selector changes (none was chosen, or the
\* path selector was set back to the empty value), none is displayed when
\* the change has ended.
C25_LayoutChangeRedisplaysOnlyADisplayedGraph ==
    (EndOf("layout") /\ ~env.step.prevDisplayed) => ~Displayed

-----------------------------------------------------------------------------
(* Claims about the origin *)

\* The origin is a map: it is not empty and does not start with 'sckan'
MapKind(source) == source /= "" /\ ~StartsWithSckan(source)

\* C27: the map-backed flag agrees with the kind of the current origin: after
\* the constructor and after every step of every transition the flag is true
\* iff the origin is not empty and does not start with 'sckan', and an origin
\* change requests the path list of the new origin with the flag already set.
C27_MapFlagAgreesWithOrigin ==
    /\ app.sourceFromMap <=> MapKind(app.source)
    /\ \A i \in 1..Len(tasks) :
          (tasks[i].kind = "source" /\ tasks[i].pc = "paths") =>
              /\ tasks[i].req.source = tasks[i].arg
              /\ tasks[i].req.fromMap <=> MapKind(tasks[i].arg)

\* An origin change from a release to a map has ended
C27_Witness ==
    /\ EndOf("source")
    /\ StartsWithSckan(env.step.prevSource)
    /\ MapKind(app.source)
    /\ app.sourceFromMap

-----------------------------------------------------------------------------
(* Claims about the reload of the path list *)

\* The terms, primary and qualifying, of both ends of every edge
EndpointTerms(knowledge) ==
    {t \in Terms :
        \E i \in 1..Len(knowledge.connectivity), end \in 1..2 :
            LET node == knowledge.connectivity[i][end]
            IN  t = node[1] \/ \E j \in 1..Len(node[2]) : t = node[2][j]}

\* The returned rows that have a connectivity field
WithConnectivityField(rows) ==
    {i \in 1..Len(rows) : "connectivity" \in rows[i].knowledge.has}

\* C28: a reload of the path list first empties the labelled-terms working
\* set and the path-to-knowledge mapping; for a knowledge-store origin the
\* answer then rebuilds them: the mapping holds exactly the returned paths
\* that have a connectivity field and the working set exactly the terms of
\* the edge ends of those paths, nothing being carried over.
C28_ReloadRebuildsWorkingSet ==
    /\ env.step.issued = "paths" =>
          (app.knowledgeByPath = <<>> /\ app.labelledTerms = {})
    /\ (env.step.at = "paths" /\ ~env.step.req.fromMap) =>
          LET rows == Query(env.step.response)
              kept == WithConnectivityField(rows)
          IN  /\ DOMAIN app.knowledgeByPath = {rows[i].key : i \in kept}
              /\ \A i \in kept : app.knowledgeByPath[rows[i].key] = rows[i].knowledge
              /\ app.labelledTerms = UNION {EndpointTerms(rows[i].knowledge) : i \in kept}

-----------------------------------------------------------------------------
(* Claims about the label lookup request *)

\* C29: resolving the labels issues exactly one lookup request when the
\* needed set is not empty, with the needed terms, each once, as its
\* parameters and as many placeholders as terms; it issues no request and
\* changes nothing when the needed set is empty; recording needed terms
\* issues no request.
C29_OneBatchedLookup ==
    /\ ~lc.called => lc.requests = <<>>
    /\ (lc.called /\ lc.labelledTerms /= {}) =>
          /\ Len(lc.requests) = 1
          /\ lc.requests[1].terms = lc.labelledTerms
          /\ lc.requests[1].placeholders = Cardinality(lc.labelledTerms)
    /\ (lc.called /\ lc.labelledTerms = {}) =>
          (lc.requests = <<>> /\ lc.labelCache = lc.before /\ ~lc.threw)

\* Terms were recorded, then resolved by one request for all of them
C29_Witness ==
    /\ lc.called
    /\ lc.added
    /\ Cardinality(lc.labelledTerms) = 3
    /\ Len(lc.requests) = 1

-----------------------------------------------------------------------------
(* Claims about the roots of the layout *)

\* C30: roots is the serialized dendrite nodes in input order followed by the
\* serialized soma nodes in input order; it is empty iff there are neither
\* dendrites nor somas, and a knowledge without a somas field gives no soma
\* roots.
C30_RootsAreDendritesThenSomas ==
    (bg.called /\ bk.present /\ {"axons", "dendrites"} \subseteq bk.has) =>
        LET dendrites == [i \in 1..Len(bk.dendrites) |-> Stringify(bk.dendrites[i])]
            somas == IF "somas" \in bk.has
                     THEN [i \in 1..Len(bk.somas) |-> Stringify(bk.somas[i])]
                     ELSE <<>>
        IN  /\ Len(Roots(bg.graph)) = Len(dendrites) + Len(somas)
            /\ \A i \in 1..Len(dendrites) : Roots(bg.graph)[i] = dendrites[i]
            /\ \A i \in 1..Len(somas) : Roots(bg.graph)[Len(dendrites) + i] = somas[i]
            /\ Roots(bg.graph) = <<>> <=> (dendrites = <<>> /\ somas = <<>>)

\* Two dendrites and a soma that is not the first dendrite gave three roots
C30_Witness ==
    /\ bg.called
    /\ ~bg.graph.threw
    /\ "somas" \in bk.has
    /\ Len(bk.dendrites) = 2
    /\ Len(bk.somas) = 1
    /\ bk.somas[1] /= bk.dendrites[1]
    /\ Len(Roots(bg.graph)) = 3

-----------------------------------------------------------------------------
(* Claims about the list of available maps *)

\* C31: the list of available maps holds exactly one descriptor per id of
\* the server's list, a descriptor of that list, whose creation time is the
\* greatest among the descriptors of that id, whatever the order of the list.
C31_NewestDescriptorPerId ==
    am.called =>
        LET listed == am.mapSources
            kept == am.availableMaps
        IN  /\ {kept[i].id : i \in 1..Len(kept)} = {listed[i].id : i \in 1..Len(listed)}
            /\ \A i, j \in 1..Len(kept) : kept[i].id = kept[j].id => i = j
            /\ \A i \in 1..Len(kept) :
                  /\ \E j \in 1..Len(listed) : listed[j] = kept[i]
                  /\ \A j \in 1..Len(listed) :
                        listed[j].id = kept[i].id => listed[j].created <= kept[i].created

\* A newer descriptor of an id came after an older one and replaced it
C31_Witness ==
    /\ am.called
    /\ Len(am.mapSources) = 3
    /\ Len(am.availableMaps) = 1
    /\ am.mapSources[1].created < am.mapSources[3].created
    /\ am.availableMaps[1] = am.mapSources[3]

-----------------------------------------------------------------------------
(* Claims about what a search leaves alone *)

\* The text is empty or holds white space only
Blank(text) == \A i \in 1..Len(text) : IsSpace(text[i])

\* C32: a search input changes neither the selection (server, origin, path,
\* layout, displayed graph) nor the URL and issues no request; the leading
\* 'please select' option is never hidden, and an empty or blank query shows
\* every option.
C32_SearchLeavesSelectionAlone ==
    /\ [](ps.inputs > 0 =>
            /\ Shown(1)
            /\ Blank(ps.value) => \A i \in 1..Len(ps.options) : Shown(i))
    /\ [][ps'.inputs = ps.inputs + 1 =>
            (app' = app /\ tasks' = tasks /\ env' = env)]_vars

\* After a query that hid an option or not, a blank query shows them all
C32_Witness ==
    /\ ps.inputs = 2
    /\ ps.value = <<" ">>
    /\ \A i \in 1..Len(ps.options) : Shown(i)
    /\ ps.size = 1

-----------------------------------------------------------------------------
(* Claims about a change of server *)

\* C33: in Ready with no transition in flight the server of the selection is
\* one whose schema version was fetched and found to be at least the
\* minimum: a server change checks the new server before it loads its lists.
C33_ServerOfSelectionWasVerified ==
    (app.handlers /\ tasks = <<>>) => app.mapServer \in env.verified

\* The origins the source selector lists
OfferedOrigins == {app.sourceOptions[i].value : i \in 1..Len(app.sourceOptions)}

\* C34: when a server change has ended, the origin of the selection is one of
\* the origins the new server offers (a release or a shown map); an origin
\* the new server does not offer is not retained.
C34_OriginIsOfferedByNewServer ==
    EndOf("server") => app.source \in OfferedOrigins

-----------------------------------------------------------------------------
(* Claims about the spinner and the record of the displayed path *)

\* C35: in Ready with no transition in flight the spinner is hidden: every
\* handler that shows it hides it however it ends, with an empty origin value
\* and with a fetch or a build that fails as well.
C35_SpinnerHiddenWhenIdle ==
    (app.handlers /\ tasks = <<>>) => ~app.spinner

\* C36: with no transition in flight the record of the displayed path is
\* empty iff no graph is displayed, and a record that is not empty is the
\* path of the selection.
C36_RecordOfDisplayedPath ==
    (app.handlers /\ tasks = <<>>) =>
        /\ app.currentPath = "" <=> ~Displayed
        /\ app.currentPath /= "" => app.currentPath = app.path

-----------------------------------------------------------------------------
(* Claims about the mapping seen by a selection *)

\* The paths the path selector offers, the prompt apart
OfferedPaths == {app.pathOptions[i].value : i \in 1..Len(app.pathOptions)} \ {""}

\* C37: on a release, whenever the path selector can deliver a selection,
\* every path it offers has an entry in the path-to-knowledge mapping: a
\* path or layout change never sees the mapping emptied or half rebuilt by a
\* reload of the path list.
C37_OfferedPathsAreMapped ==
    (app.handlers /\ ~app.disabled["path"] /\ ~app.sourceFromMap) =>
        OfferedPaths \subseteq DOMAIN app.knowledgeByPath

-----------------------------------------------------------------------------
(* Claims about the flags of a node *)

\* C38: every node of a built graph carries at most one of the flags axon,
\* dendrite, soma and both-a-d, whatever sets its KnowledgeNode belongs to,
\* and the MISSING node carries none.
C38_AtMostOneRoleFlag ==
    (bg.called /\ ~bg.graph.threw) =>
        \A i \in 1..Len(bg.graph.nodes) :
            LET node == bg.graph.nodes[i]
            IN  /\ node.flags \subseteq {"axon", "dendrite", "soma", "both-a-d"}
                /\ Cardinality(node.flags) <= 1
                /\ node.id = "MISSING" => node.flags = {}

\* A node listed as axon, dendrite and soma at once was built with one flag
C38_Witness ==
    /\ bg.called
    /\ HasFields(bk)
    /\ Len(bk.connectivity) > 0
    /\ \E i \in 1..Len(bg.graph.nodes) :
           /\ InRole("axons", BuiltFrom(i))
           /\ InRole("dendrites", BuiltFrom(i))
           /\ InRole("somas", BuiltFrom(i))
           /\ Cardinality(bg.graph.nodes[i].flags) = 1

====
